---- MODULE Spec2Model ----
\* A model of download_datasets.py: the orchestration loop
\* search_and_download_datasets and the three functions it drives,
\* search_products, get_access_token and download_products, together with the
\* remote services (catalog, identity, zipper) and the local filesystem they
\* talk to.  The remote services and the initial filesystem are the
\* environment: their answers are chosen nondeterministically.
EXTENDS Integers, Sequences, FiniteSets, TLC

\* ---------------------------------------------------------------- bounds
MaxTiles == 2       \* longest tile list passed to the orchestrator
MaxMatches == 2     \* longest "value" array in a catalog response
MaxChunks == 2      \* most chunks iter_content yields for one body

\* ---------------------------------------------------------------- values
None == [tag |-> "None"]

TileCodes == {"16QEJ", "16QDH"}

datadir == "../"

Dates == { [year |-> 2024, month |-> 1, day |-> 16],
           [year |-> 2023, month |-> 12, day |-> 5] }

\* The catalog entries the remote catalog may list, in any order.
CatalogRows ==
  { [Id |-> "id-a", Name |-> "S2A_MSIL1C_A", OriginDate |-> "2024-01-16T17:00:00Z"],
    [Id |-> "id-b", Name |-> "S2B_MSIL1C_B", OriginDate |-> "2023-12-05T09:30:00Z"] }

RECURSIVE SeqsUpTo(_, _)
SeqsUpTo(S, n) ==
  IF n = 0 THEN {<<>>}
  ELSE LET shorter == SeqsUpTo(S, n - 1)
       IN shorter \cup {Append(s, x) : s \in {t \in shorter : Len(t) = n - 1}, x \in S}

\* What requests.get(url).json() of the catalog can yield: a transport
\* failure, a JSON body without "value", or a JSON body with a match array.
CatalogOutcomes ==
  {[kind |-> "transport", value |-> <<>>], [kind |-> "novalue", value |-> <<>>]}
  \cup {[kind |-> "json", value |-> rows] : rows \in SeqsUpTo(CatalogRows, MaxMatches)}

\* What the token POST can yield: no response at all, or a response with a
\* status and a body (a token document, an error document, or not JSON).
ErrorPayload == [error |-> "invalid_grant"]
TokenOutcomes ==
  {[kind |-> "transport", status |-> 0, body |-> "none"]}
  \cup {[kind |-> "response", status |-> s, body |-> b] :
          s \in {200, 401}, b \in {"token", "error", "notjson"}}

\* What the content GET can yield: no response, or a response with a status
\* whose body is streamed later.
ContentOutcomes ==
  {[kind |-> "transport", status |-> 0]}
  \cup {[kind |-> "response", status |-> s] : s \in {200, 404}}

\* The bodies the zipper service may send, as bytes.  With stream=True a body
\* arrives while iter_content runs, cut into chunks at arbitrary places; a
\* chunk may be empty.
Bodies == {<<>>, <<1, 2>>}
ChunkValues == {<<>>, <<1>>, <<2>>, <<1, 2>>}
RECURSIVE Flatten(_)
Flatten(chunks) == IF Len(chunks) = 0 THEN <<>> ELSE Head(chunks) \o Flatten(Tail(chunks))
BodyStreams == {cs \in SeqsUpTo(ChunkValues, MaxChunks) : Flatten(cs) \in Bodies}

\* ------------------------------------------------------- pure functions
Digit(n) ==
  CASE n = 0 -> "0" [] n = 1 -> "1" [] n = 2 -> "2" [] n = 3 -> "3" [] n = 4 -> "4"
    [] n = 5 -> "5" [] n = 6 -> "6" [] n = 7 -> "7" [] n = 8 -> "8" [] n = 9 -> "9"

\* date.strftime("%Y%m%d"): four digits of year, two of month, two of day.
strftime(date) ==
  Digit(date.year \div 1000) \o Digit((date.year \div 100) % 10)
    \o Digit((date.year \div 10) % 10) \o Digit(date.year % 10)
    \o Digit(date.month \div 10) \o Digit(date.month % 10)
    \o Digit(date.day \div 10) \o Digit(date.day % 10)

\* product_type keeps its default "L1C" in every call this program makes.
level == "MSIL1C"

SearchUrl(date, tile) ==
  "https://catalogue.dataspace.copernicus.eu/odata/v1/Products?$filter=contains(Name, '"
    \o date \o "') and contains(Name, '" \o tile \o "')"

\* search_products up to the URL: the filter for a tile and a date.
SearchQuery(tile, date) == SearchUrl(level \o "_" \o strftime(date), tile)

Raise(type, payload) == [raised |-> TRUE, type |-> type, payload |-> payload, value |-> None]
Return(v) == [raised |-> FALSE, type |-> "none", payload |-> None, value |-> v]

\* pd.DataFrame.from_dict(rows).iloc[0]: the first row, IndexError when none.
iloc0_last(rows) == IF Len(rows) = 0 THEN Raise("IndexError", None) ELSE Return(rows[Len(rows)])
iloc0(rows) == IF Len(rows) = 0 THEN Raise("IndexError", None) ELSE Return(rows[1])

EmptyProducts == [ids |-> "", names |-> "", tiles |-> "", origin_dates |-> ""]

MakeProducts(df, tile) ==
  [ids |-> df.Id, names |-> df.Name, tiles |-> tile, origin_dates |-> df.OriginDate]

search_products_default(tile, outcome) ==
  IF outcome.kind = "transport" THEN Raise("ConnectionError", None)
  ELSE IF outcome.kind = "novalue" THEN Raise("KeyError", None)
  ELSE IF Len(outcome.value) = 0 THEN Return(EmptyProducts)
  ELSE Return(MakeProducts(outcome.value[1], tile))

\* search_products from the catalog GET on: what it returns or raises, given
\* what the GET yields.
search_products(tile, outcome) ==
  IF outcome.kind = "transport" THEN Raise("ConnectionError", None)
  ELSE IF outcome.kind = "novalue" THEN Raise("KeyError", None)
  ELSE LET df == iloc0(outcome.value)
       IN IF df.raised THEN df ELSE Return(MakeProducts(df.value, tile))

\* The date search_and_download_datasets hands to search_products: the call
\* search_products(tile, start_date, end_date, ...) binds the second
\* positional parameter, date, to start_date (end_date lands in search_string).
SearchDateArg_end(start, end) == end
SearchDateArg(start, end) == start

\* get_access_token, given what the token POST yields and the token the
\* identity service would issue.  In the handler r is unbound when the POST
\* itself raised, and r.json() raises when the body is not JSON.
get_access_token(outcome, issued) ==
  IF outcome.kind = "transport" THEN Raise("UnboundLocalError", None)
  ELSE IF outcome.status \notin 200..299
    THEN IF outcome.body = "notjson" THEN Raise("JSONDecodeError", None)
         ELSE Raise("Exception", IF outcome.body = "error" THEN ErrorPayload
                                 ELSE [access_token |-> issued])
  ELSE IF outcome.body = "notjson" THEN Raise("JSONDecodeError", None)
  ELSE IF outcome.body = "error" THEN Raise("KeyError", None)
  ELSE Return(issued)

DirPath(dd, tile) == dd \o "T" \o tile
FilePath(dd, tile, name) == dd \o "T" \o tile \o "/" \o name \o ".zip"

\* os.makedirs(path), without exist_ok.
makedirs(ds, path) ==
  IF path \in ds THEN Raise("FileExistsError", None) ELSE Return(ds \cup {path})

\* session.get(...): raises only when no response is obtained.
ContentGetRaises_checked(outcome) == outcome.kind = "transport" \/ outcome.status \notin 200..299
ContentGetRaises(outcome) == outcome.kind = "transport"

\* if not os.path.exists(dir)
NeedsMkdir_always(ds, path) == TRUE
NeedsMkdir(ds, path) == path \notin ds

\* if unzip == False
ShouldWrite_always(uz) == TRUE
ShouldWrite(uz) == uz = FALSE

\* for chunk in iter_content: if chunk: file.write(chunk), on a file opened 'wb'.
RECURSIVE WriteLoop(_, _)
WriteLoop(content, chunks) ==
  IF Len(chunks) = 0 THEN content
  ELSE WriteLoop(IF Len(Head(chunks)) > 0 THEN content \o Head(chunks) ELSE content,
                 Tail(chunks))

WriteChunks_append(old, chunks) == WriteLoop(old, chunks)
WriteChunks(old, chunks) == WriteLoop(<<>>, chunks)

\* The order of the steps of download_products.
NextStep_mkdirFirst(step) ==
  CASE step = "token" -> "mkdir" [] step = "mkdir" -> "get"
    [] step = "get" -> "write" [] step = "write" -> "end"
NextStep(step) ==
  CASE step = "token" -> "get" [] step = "get" -> "mkdir"
    [] step = "mkdir" -> "write" [] step = "write" -> "end"

\* An exception leaving the loop body: nothing catches it.
OnRaise_continue(pos, n) ==
  IF pos < n THEN [pc |-> "search", i |-> pos + 1] ELSE [pc |-> "done", i |-> pos]
OnRaise(pos, n) == [pc |-> "error", i |-> pos]

\* Where control goes after a step of download_products; after its last step
\* the for loop takes the next tile or ends.
LoopNext(pos, n) ==
  IF pos < n THEN [pc |-> "search", i |-> pos + 1] ELSE [pc |-> "done", i |-> pos]
After(step, pos, n) ==
  IF NextStep(step) = "end" THEN LoopNext(pos, n) ELSE [pc |-> NextStep(step), i |-> pos]

\* ---------------------------------------------------------------- state
VARIABLES
  tiles, start_date, end_date, unzip,   \* arguments of search_and_download_datasets
  pc, i,                                \* position in the loop and in its body
  products, access_token, response,     \* locals of the loop body and of download_products
  dirs, files,                          \* the filesystem under datadir
  error,                                \* the exception that was raised, if any
  tokenSerial,                          \* tokens the identity service has issued
  url, json_response, token_reply, content_reply, streamed,  \* last request/reply of each kind
  log, granted, bearer, existed, created,     \* history, per tile position
  dirs0, files0, atCall                       \* filesystem at start / at call entry

vars == <<tiles, start_date, end_date, unzip, pc, i, products, access_token, response,
          dirs, files, error, tokenSerial, url, json_response, token_reply, content_reply,
          streamed, log, granted, bearer, existed, created, dirs0, files0, atCall>>

NoError == [type |-> "none", step |-> "none", pos |-> 0, payload |-> None]
Failure(r, step, pos) == [type |-> r.type, step |-> step, pos |-> pos, payload |-> r.payload]

NoFiles == [p \in {} |-> <<>>]
OldPath == FilePath(datadir, "16QEJ", "S2A_MSIL1C_A")
InitialFilesystems ==
  { [dirs |-> {}, files |-> NoFiles],
    [dirs |-> {DirPath(datadir, "16QEJ")}, files |-> NoFiles],
    [dirs |-> {DirPath(datadir, "16QEJ")}, files |-> [p \in {OldPath} |-> <<9>>]] }

AllDirPaths == {DirPath(datadir, t) : t \in TileCodes}

Init ==
  /\ tiles \in SeqsUpTo(TileCodes, MaxTiles)
  /\ start_date \in Dates
  /\ end_date \in Dates
  /\ unzip \in BOOLEAN
  /\ \E fs \in InitialFilesystems :
       /\ dirs = fs.dirs /\ files = fs.files
       /\ dirs0 = fs.dirs /\ files0 = fs.files
  /\ pc = IF Len(tiles) = 0 THEN "done" ELSE "search"
  /\ i = IF Len(tiles) = 0 THEN 0 ELSE 1
  /\ products = None /\ access_token = 0 /\ response = None
  /\ error = NoError
  /\ tokenSerial = 0
  /\ url = "" /\ json_response = None /\ token_reply = None /\ content_reply = None
  /\ streamed = None
  /\ log = [k \in 1..Len(tiles) |-> <<>>]
  /\ granted = [k \in 1..Len(tiles) |-> 0]
  /\ bearer = [k \in 1..Len(tiles) |-> 0]
  /\ existed = [k \in 1..Len(tiles) |-> "na"]
  /\ created = [p \in AllDirPaths |-> 0]
  /\ atCall = None

Inputs == <<tiles, start_date, end_date, unzip, dirs0, files0>>

\* ---------------------------------------------------------------- actions
\* products = search_products(tile, start_date, end_date, query_args=query_args)
Search ==
  /\ pc = "search"
  /\ \E outcome \in CatalogOutcomes :
       LET tile == tiles[i]
           date == SearchDateArg(start_date, end_date)
           r == search_products(tile, outcome)
           ctl == IF r.raised THEN OnRaise(i, Len(tiles)) ELSE [pc |-> "token", i |-> i]
       IN /\ url' = SearchQuery(tile, date)
          /\ json_response' = outcome
          /\ log' = [log EXCEPT ![i] = Append(@, "search")]
          /\ products' = r.value
          /\ error' = IF r.raised THEN Failure(r, "search", i) ELSE error
          /\ atCall' = IF r.raised THEN atCall ELSE [dirs |-> dirs, files |-> files]
          /\ pc' = ctl.pc /\ i' = ctl.i
  /\ streamed' = None /\ token_reply' = None /\ content_reply' = None
  /\ UNCHANGED <<Inputs, access_token, response, dirs, files, tokenSerial,
                 granted, bearer, existed, created>>

\* access_token = get_access_token(base.Dataspace_username, base.Dataspace_password)
GetToken ==
  /\ pc = "token"
  /\ \E outcome \in TokenOutcomes :
       LET r == get_access_token(outcome, tokenSerial + 1)
           ctl == IF r.raised THEN OnRaise(i, Len(tiles)) ELSE After("token", i, Len(tiles))
       IN /\ token_reply' = outcome
          /\ log' = [log EXCEPT ![i] = Append(@, "token")]
          /\ access_token' = IF r.raised THEN access_token ELSE r.value
          /\ tokenSerial' = IF r.raised THEN tokenSerial ELSE tokenSerial + 1
          /\ granted' = IF r.raised THEN granted ELSE [granted EXCEPT ![i] = r.value]
          /\ error' = IF r.raised THEN Failure(r, "token", i) ELSE error
          /\ pc' = ctl.pc /\ i' = ctl.i
  /\ json_response' = None
  /\ UNCHANGED <<Inputs, products, response, dirs, files, url, content_reply, streamed,
                 bearer, existed, created, atCall>>

\* response = session.get(url, headers=headers, stream=True)
ContentGet ==
  /\ pc = "get"
  /\ \E outcome \in ContentOutcomes :
       LET raised == ContentGetRaises(outcome)
           r == Raise(IF outcome.kind = "transport" THEN "ConnectionError" ELSE "HTTPError", None)
           ctl == IF raised THEN OnRaise(i, Len(tiles)) ELSE After("get", i, Len(tiles))
       IN /\ content_reply' = outcome
          /\ response' = IF raised THEN response ELSE outcome
          /\ log' = [log EXCEPT ![i] = Append(@, "get")]
          /\ bearer' = [bearer EXCEPT ![i] = access_token]
          /\ error' = IF raised THEN Failure(r, "get", i) ELSE error
          /\ pc' = ctl.pc /\ i' = ctl.i
  /\ UNCHANGED <<Inputs, products, access_token, dirs, files, tokenSerial, url,
                 json_response, token_reply, streamed, granted, existed, created, atCall>>

\* if not os.path.exists(f"{datadir}T{tile}"): os.makedirs(f"{datadir}T{tile}")
MakeDir ==
  /\ pc = "mkdir"
  /\ LET path == DirPath(datadir, products.tiles)
         call == NeedsMkdir(dirs, path)
         r == makedirs(dirs, path)
         raised == call /\ r.raised
         ctl == IF raised THEN OnRaise(i, Len(tiles)) ELSE After("mkdir", i, Len(tiles))
     IN /\ existed' = [existed EXCEPT ![i] = IF path \in dirs THEN "yes" ELSE "no"]
        /\ log' = IF call THEN [log EXCEPT ![i] = Append(@, "mkdir")] ELSE log
        /\ dirs' = IF call /\ ~r.raised THEN r.value ELSE dirs
        /\ created' = IF call /\ ~r.raised THEN [created EXCEPT ![path] = @ + 1] ELSE created
        /\ error' = IF raised THEN Failure(r, "mkdir", i) ELSE error
        /\ pc' = ctl.pc /\ i' = ctl.i
  /\ UNCHANGED <<Inputs, products, access_token, response, files, tokenSerial, url,
                 json_response, token_reply, content_reply, streamed, granted, bearer, atCall>>

\* if unzip == False: open(..., 'wb') and write the non-empty chunks; then the
\* call returns, products = None, and the loop goes on.
WriteFile ==
  /\ pc = "write"
  /\ LET path == FilePath(datadir, products.tiles, products.names)
         old == IF path \in DOMAIN files THEN files[path] ELSE <<>>
         ctl == After("write", i, Len(tiles))
         ended == NextStep("write") = "end"
     IN IF ShouldWrite(unzip)
        THEN \E chunks \in BodyStreams, broken \in BOOLEAN :
               LET r == Raise("ChunkedEncodingError", None)
                   c == IF broken THEN OnRaise(i, Len(tiles)) ELSE ctl
               IN /\ files' = [p \in DOMAIN files \cup {path} |->
                                 IF p = path THEN WriteChunks(old, chunks) ELSE files[p]]
                  /\ log' = [log EXCEPT ![i] = Append(@, "write")]
                  /\ streamed' = [products |-> products, path |-> path, chunks |-> chunks,
                                  status |-> response.status, pos |-> i,
                                  before |-> files]
                  /\ error' = IF broken THEN Failure(r, "write", i) ELSE error
                  /\ pc' = c.pc /\ i' = c.i
                  /\ products' = IF broken \/ ~ended THEN products ELSE None
                  /\ access_token' = IF broken \/ ~ended THEN access_token ELSE 0
                  /\ response' = IF broken \/ ~ended THEN response ELSE None
                  /\ atCall' = IF broken \/ ~ended THEN atCall ELSE None
        ELSE /\ pc' = ctl.pc /\ i' = ctl.i
             /\ products' = IF ended THEN None ELSE products
             /\ access_token' = IF ended THEN 0 ELSE access_token
             /\ response' = IF ended THEN None ELSE response
             /\ atCall' = IF ended THEN None ELSE atCall
             /\ UNCHANGED <<files, log, streamed, error>>
  /\ UNCHANGED <<Inputs, dirs, tokenSerial, url, json_response, token_reply, content_reply,
                 granted, bearer, existed, created>>

Next == Search \/ GetToken \/ ContentGet \/ MakeDir \/ WriteFile

Spec == Init /\ [][Next]_vars

\* ---------------------------------------------------------------- claims
Has(seq, x) == \E n \in 1..Len(seq) : seq[n] = x
IsPrefix(a, b) == Len(a) <= Len(b) /\ SubSeq(b, 1, Len(a)) = a
Positions == 1..Len(tiles)

\* The YYYYMMDD form of each date of Dates, written out.
YYYYMMDD(d) ==
  CASE d = [year |-> 2024, month |-> 1, day |-> 16] -> "20240116"
    [] d = [year |-> 2023, month |-> 12, day |-> 5] -> "20231205"

ExpectedFilter(d, t) ==
  "https://catalogue.dataspace.copernicus.eu/odata/v1/Products?$filter=contains(Name, 'MSIL1C_"
    \o YYYYMMDD(d) \o "') and contains(Name, '" \o t \o "')"

\* The non-empty chunks of a stream, joined in order, and their total length.
NonEmptyChunks(chunks) == SelectSeq(chunks, LAMBDA c : c # <<>>)
RECURSIVE JoinFrom(_, _)
JoinFrom(chunks, n) ==
  IF n > Len(chunks) THEN <<>> ELSE chunks[n] \o JoinFrom(chunks, n + 1)
RECURSIVE SumLenFrom(_, _)
SumLenFrom(chunks, n) ==
  IF n > Len(chunks) THEN 0 ELSE Len(chunks[n]) + SumLenFrom(chunks, n + 1)

\* C1: when search_products raises for the tile at position i, the run ends
\* in the error state at i, nothing but the search was done for tile i, and
\* nothing at all (search, token request, content GET, directory creation,
\* file write) was done for any later tile.
C1_SearchFailureStopsRun ==
  (error.type # "none" /\ error.step = "search") =>
    /\ pc = "error"
    /\ i = error.pos
    /\ log[error.pos] = <<"search">>
    /\ \A k \in Positions : k > error.pos => log[k] = <<>>

C1_Witness ==
  /\ pc = "error" /\ error.step = "search" /\ error.type = "IndexError"
  /\ error.pos = 1 /\ Len(tiles) = 2

\* C2 (as claimed): whenever the token POST yields no response, or a non-2xx
\* response with a JSON body, get_access_token fails with the authentication
\* error ("Exception") carrying the server's JSON payload, and no token is
\* returned.
C2_TokenFailureIsAuthError ==
  (token_reply # None /\ (\/ token_reply.kind = "transport"
                          \/ (token_reply.status \notin 200..299 /\ token_reply.body = "error"))) =>
    /\ error.step = "token"
    /\ error.type = "Exception"
    /\ error.payload = ErrorPayload
    /\ access_token = 0

C4_FirstMatchTaken ==
  (json_response # None /\ json_response.kind = "json" /\ Len(json_response.value) > 0) =>
    /\ pc = "token" /\ error.type = "none"
    /\ products.tiles = tiles[i]
    /\ products.ids = json_response.value[1].Id
    /\ products.names = json_response.value[1].Name
    /\ products.origin_dates = json_response.value[1].OriginDate

C4_Witness ==
  /\ json_response # None /\ json_response.kind = "json"
  /\ Len(json_response.value) = 2
  /\ json_response.value[1] # json_response.value[2]
  /\ products # None /\ products.ids = json_response.value[1].Id

\* C5: for an empty match array search_products raises and returns no
\* descriptor, and nothing of the download is done for that tile.
C5_EmptyResultRaises ==
  (json_response # None /\ json_response.kind = "json" /\ Len(json_response.value) = 0) =>
    /\ error.type = "IndexError" /\ error.step = "search" /\ error.pos = i
    /\ products = None
    /\ pc = "error"
    /\ log[i] = <<"search">>

C5_Witness ==
  /\ json_response # None /\ json_response.kind = "json" /\ Len(json_response.value) = 0
  /\ error.type = "IndexError" /\ pc = "error"

\* C6: after a download with unzip = False that completed, the file
\* <datadir>T<tile>/<name>.zip exists and holds exactly the non-empty chunks of
\* the body joined in stream order, whatever was at that path before.
C6_FileIsNonEmptyChunks ==
  (streamed # None /\ error.type = "none") =>
    LET path == datadir \o "T" \o streamed.products.tiles \o "/"
                  \o streamed.products.names \o ".zip"
        kept == NonEmptyChunks(streamed.chunks)
    IN /\ streamed.path = path
       /\ streamed.products.tiles = tiles[streamed.pos]
       /\ path \in DOMAIN files
       /\ files[path] = JoinFrom(kept, 1)
       /\ Len(files[path]) = SumLenFrom(kept, 1)
       /\ \A p \in DOMAIN files \ {path} : p \in DOMAIN streamed.before /\ files[p] = streamed.before[p]

C6_Witness ==
  /\ streamed # None /\ error.type = "none" /\ ~unzip
  /\ streamed.chunks = << <<1>>, <<2>> >>
  /\ streamed.path \in DOMAIN files0
  /\ files[streamed.path] = <<1, 2>>

C8_MkdirIffAbsent ==
  /\ error.type # "FileExistsError"
  /\ \A k \in Positions :
       existed[k] # "na" =>
         /\ Has(log[k], "mkdir") <=> existed[k] = "no"
         /\ DirPath(datadir, tiles[k]) \in dirs
  /\ \A p \in AllDirPaths :
       /\ created[p] <= 1
       /\ p \in dirs0 => created[p] = 0
       /\ p \in dirs <=> (p \in dirs0 \/ created[p] = 1)

C8_Witness ==
  /\ Len(tiles) = 2 /\ tiles[1] = tiles[2] /\ pc = "done"
  /\ existed[1] = "no" /\ existed[2] = "yes"
  /\ created[DirPath(datadir, tiles[1])] = 1

\* C9: for every tile the events come in the order search, token request,
\* content GET, directory creation, file write; a content GET carries the
\* token granted by the token request of the same download call, no token
\* serves two content GETs, and a failed token request leaves no content GET
\* and no change on disk for that tile.
C9_FreshTokenBeforeGet ==
  /\ \A k \in Positions :
       /\ \/ IsPrefix(log[k], <<"search", "token", "get", "mkdir", "write">>)
          \/ IsPrefix(log[k], <<"search", "token", "get", "write">>)
       /\ Has(log[k], "get") => (granted[k] # 0 /\ bearer[k] = granted[k])
       /\ ~Has(log[k], "get") => bearer[k] = 0
       /\ \A j \in Positions : (j # k /\ bearer[j] # 0) => bearer[j] # bearer[k]
  /\ (error.step = "token") =>
       /\ log[error.pos] = <<"search", "token">>
       /\ granted[error.pos] = 0
       /\ dirs = atCall.dirs /\ files = atCall.files

C9_Witness ==
  /\ Len(tiles) = 2 /\ pc = "done" /\ error.type = "none"
  /\ log[1] = <<"search", "token", "get", "mkdir", "write">>
  /\ log[2] = <<"search", "token", "get", "write">>
  /\ bearer[1] # 0 /\ bearer[2] # 0

====
